---------------------------- MODULE Spec2Model ----------------------------
(***************************************************************************)
(* Configuration derivation of the Stencil compiler:                       *)
(*   - getTranspileConfig / getTranspileConfigOpt (single-file transpile   *)
(*     options, with the process-wide transpileCtx.sys memo);              *)
(*   - validateConfig (full build configuration, with the process-wide     *)
(*     CACHED_VALIDATED_CONFIG slot).                                      *)
(*                                                                         *)
(* JavaScript values are tagged records: t is the value's kind, v its      *)
(* payload.  A string is a sequence of one-character strings, so that      *)
(* toLowerCase and trim are computed character by character.  Objects that *)
(* the code shares by reference (config objects, extras objects) live in   *)
(* `heap` and are denoted by Ref(id).                                      *)
(***************************************************************************)
EXTENDS Integers, Sequences, FiniteSets, TLC

VARIABLES
  heap,                     \* object id -> object (config and extras objects)
  CACHED_VALIDATED_CONFIG,  \* module-level slot of validate-config.ts
  call,                     \* history of validateConfig: the last call (its number n, argument,
                            \* path taken, return value, heap and cache on entry), the objects
                            \* returned by full runs so far, and the last of them
  transpileCtx,             \* module-level { sys } of the transpile module
  nodeSysCreated,           \* number of createNodeSys() constructions so far
  tcall                     \* history of the last getTranspileConfig call

vars == <<heap, CACHED_VALIDATED_CONFIG, call, transpileCtx, nodeSysCreated, tcall>>

validateVars == <<heap, CACHED_VALIDATED_CONFIG, call>>

transpileVars == <<transpileCtx, nodeSysCreated, tcall>>

(***************************************************************************)
(* Bounds of the model.                                                    *)
(***************************************************************************)
\* longest run of whitespace put on either side of a string input
MaxPad == 1

\* number of calls of getTranspileConfig, and of validateConfig, in one process
MaxCalls == 3

\* number of objects the heap may hold
MaxObjs == 6

\* how far below the minimum / above the maximum the hashed-file-name lengths range
Slack == 1

(***************************************************************************)
(* JavaScript values.                                                      *)
(***************************************************************************)
Undef == [t |-> "undefined"]

Null == [t |-> "null"]

NaN == [t |-> "nan"]

B(b) == [t |-> "boolean", v |-> b]

N(n) == [t |-> "number", v |-> n]

S(s) == [t |-> "string", v |-> s]

Ref(id) == [t |-> "object", v |-> id]

Arr(s) == [t |-> "array", v |-> s]

RegExp(name) == [t |-> "regexp", v |-> name]

EmptyObject == [t |-> "plain", v |-> "{}"]

\* a system abstraction: supplied by the caller, or built by createNodeSys()
Sys(kind, id) == [t |-> "sys", kind |-> kind, id |-> id]

TypeOf(x) ==
  CASE x.t = "undefined" -> "undefined"
    [] x.t = "boolean" -> "boolean"
    [] x.t = "number" -> "number"
    [] x.t = "nan" -> "number"
    [] x.t = "string" -> "string"
    [] OTHER -> "object"

isBoolean(x) == TypeOf(x) = "boolean"

isNumber(x) == TypeOf(x) = "number"

isString(x) == TypeOf(x) = "string"

\* ToBoolean: what `if (x)`, `!x`, `x || y` test
Truthy(x) ==
  CASE x.t = "undefined" -> FALSE
    [] x.t = "null" -> FALSE
    [] x.t = "nan" -> FALSE
    [] x.t = "boolean" -> x.v
    [] x.t = "number" -> x.v # 0
    [] x.t = "string" -> x.v # <<>>
    [] OTHER -> TRUE

\* x ?? y
Nullish(x, y) == IF x = Undef \/ x = Null THEN y ELSE x

(***************************************************************************)
(* Strings.                                                                *)
(***************************************************************************)
UpperAlpha ==
  <<"A", "B", "C", "D", "E", "F", "G", "H", "I", "J", "K", "L", "M",
    "N", "O", "P", "Q", "R", "S", "T", "U", "V", "W", "X", "Y", "Z">>

LowerAlpha ==
  <<"a", "b", "c", "d", "e", "f", "g", "h", "i", "j", "k", "l", "m",
    "n", "o", "p", "q", "r", "s", "t", "u", "v", "w", "x", "y", "z">>

LowerChar(c) ==
  IF \E i \in DOMAIN UpperAlpha : UpperAlpha[i] = c
  THEN LowerAlpha[CHOOSE i \in DOMAIN UpperAlpha : UpperAlpha[i] = c]
  ELSE c

UpperChar(c) ==
  IF \E i \in DOMAIN LowerAlpha : LowerAlpha[i] = c
  THEN UpperAlpha[CHOOSE i \in DOMAIN LowerAlpha : LowerAlpha[i] = c]
  ELSE c

\* String.prototype.toLowerCase
toLowerCase(s) == [i \in 1..Len(s) |-> LowerChar(s[i])]

IsWhiteSpace(c) == c \in {" ", "\t", "\n"}

\* String.prototype.trim: drop the leading and the trailing white space
trim(s) ==
  LET keep == {i \in 1..Len(s) : ~IsWhiteSpace(s[i])}
  IN IF keep = {} THEN <<>>
     ELSE LET lo == CHOOSE i \in keep : \A j \in keep : i <= j
              hi == CHOOSE i \in keep : \A j \in keep : j <= i
          IN SubSeq(s, lo, hi)

Str_customelement == <<"c", "u", "s", "t", "o", "m", "e", "l", "e", "m", "e", "n", "t">>

Str_module == <<"m", "o", "d", "u", "l", "e">>

Str_compilerstatic == <<"c", "o", "m", "p", "i", "l", "e", "r", "s", "t", "a", "t", "i", "c">>

Str_cjs == <<"c", "j", "s">>

Str_esm == <<"e", "s", "m">>

Str_defineproperty == <<"d", "e", "f", "i", "n", "e", "p", "r", "o", "p", "e", "r", "t", "y">>

Str_static == <<"s", "t", "a", "t", "i", "c">>

Str_queryparams == <<"q", "u", "e", "r", "y", "p", "a", "r", "a", "m", "s">>

Str_latest == <<"l", "a", "t", "e", "s", "t">>

Str_esnext == <<"e", "s", "n", "e", "x", "t">>

Str_es2020 == <<"e", "s", "2", "0", "2", "0">>

Str_es2019 == <<"e", "s", "2", "0", "1", "9">>

Str_es2018 == <<"e", "s", "2", "0", "1", "8">>

Str_es2017 == <<"e", "s", "2", "0", "1", "7">>

Str_es2016 == <<"e", "s", "2", "0", "1", "6">>

Str_es2015 == <<"e", "s", "2", "0", "1", "5">>

Str_es5 == <<"e", "s", "5">>

Str_null == <<"n", "u", "l", "l">>

Str_bogus == <<"b", "o", "g", "u", "s">>

Str_es3 == <<"e", "s", "3">>

Str_prod == <<"p", "r", "o", "d">>

Str_async == <<"a", "s", "y", "n", "c">>

Str_inline == <<"i", "n", "l", "i", "n", "e">>

Str_yes == <<"y", "e", "s">>

(***************************************************************************)
(* The transpile module: getTranspileConfigOpt and getTranspileConfig.     *)
(***************************************************************************)
VALID_EXPORT == {S(Str_customelement), S(Str_module)}

VALID_METADATA == {S(Str_compilerstatic), Null}

VALID_MODULE == {S(Str_cjs), S(Str_esm)}

VALID_PROXY == {S(Str_defineproperty), Null}

VALID_STYLE == {S(Str_static)}

VALID_STYLE_IMPORT_DATA == {S(Str_queryparams)}

VALID_TARGET ==
  {S(Str_latest), S(Str_esnext), S(Str_es2020), S(Str_es2019), S(Str_es2018),
   S(Str_es2017), S(Str_es2016), S(Str_es2015), S(Str_es5)}

\* the option normalizer without its trim()
getTranspileConfigOpt_NoTrim(value, validValues, defaultValue) ==
  IF value = Null \/ value = S(Str_null) THEN Null
  ELSE LET v == IF isString(value) THEN S(toLowerCase(value.v)) ELSE Null
       IN IF v \in validValues THEN v ELSE defaultValue

getTranspileConfigOpt(value, validValues, defaultValue) ==
  IF value = Null \/ value = S(Str_null) THEN Null
  ELSE LET v == IF isString(value) THEN S(trim(toLowerCase(value.v))) ELSE Null
       IN IF v \in validValues THEN v ELSE defaultValue

\* require('../sys/node/index.js').createNodeSys(): the k-th system constructed
createNodeSys(k) == Sys("node", k)

\* transpileCtx.sys after the first statement of getTranspileConfig
resolveSys(input) ==
  IF Truthy(input.sys) THEN input.sys
  ELSE IF ~Truthy(transpileCtx.sys) THEN createNodeSys(nodeSysCreated + 1)
  ELSE transpileCtx.sys

compileOptsOf(input) ==
  [componentExport |-> getTranspileConfigOpt(input.componentExport, VALID_EXPORT, S(Str_customelement)),
   componentMetadata |-> getTranspileConfigOpt(input.componentMetadata, VALID_METADATA, Null),
   proxy |-> getTranspileConfigOpt(input.proxy, VALID_PROXY, S(Str_defineproperty)),
   module |-> getTranspileConfigOpt(input.module, VALID_MODULE, S(Str_esm)),
   sourceMap |-> IF input.sourceMap = S(Str_inline) THEN S(Str_inline)
                 ELSE B(input.sourceMap # B(FALSE)),
   style |-> getTranspileConfigOpt(input.style, VALID_STYLE, S(Str_static)),
   styleImportData |-> getTranspileConfigOpt(input.styleImportData, VALID_STYLE_IMPORT_DATA, S(Str_queryparams)),
   target |-> getTranspileConfigOpt(input.target, VALID_TARGET, S(Str_latest))]

\* the minimal build configuration handed back beside the compile options
transpileConfigOf(input, sys) ==
  [_isTesting |-> B(TRUE),
   devMode |-> B(TRUE),
   enableCache |-> B(FALSE),
   minifyCss |-> B(TRUE),
   minifyJs |-> B(FALSE),
   sys |-> sys,
   transformAliasedImportPaths |-> input.transformAliasedImportPaths,
   validateTypes |-> B(FALSE)]

\* one call getTranspileConfig(input)
getTranspileConfig(input) ==
  LET sys == resolveSys(input)
      built == ~Truthy(input.sys) /\ ~Truthy(transpileCtx.sys)
      compileOpts == compileOptsOf(input)
  IN /\ transpileCtx' = [sys |-> sys]
     /\ nodeSysCreated' = IF built THEN nodeSysCreated + 1 ELSE nodeSysCreated
     /\ tcall' = [n |-> tcall.n + 1,
                  input |-> input,
                  result |-> [compileOpts |-> compileOpts,
                              config |-> transpileConfigOf(input, sys),
                              transformOpts |-> [f \in DOMAIN compileOpts \ {"sourceMap"} |-> compileOpts[f]]]]
     /\ UNCHANGED validateVars

(***************************************************************************)
(* validateConfig: the objects it works on.                                *)
(*                                                                         *)
(* A config object holds every field the validator itself resolves; an     *)
(* absent field reads as undefined.  The fields owned by the external      *)
(* validators (logger, sys, devServer, outputTargets, testing, paths,      *)
(* rollupConfig, hydratedFlag, maxConcurrentWorkers) are left out: the     *)
(* validator only hands them on.  `extras` is a reference into the heap;   *)
(* `flags`, `bundles` and `watchIgnoredRegex` are values, because the      *)
(* validator builds a new object for each of them and never writes to the  *)
(* caller's.                                                               *)
(***************************************************************************)
FlagNames == {"prod", "dev", "watch", "docs", "esm", "profile", "log", "cache"}

Flags(rec) == [t |-> "flags", v |-> rec]

NoFlags == [k \in FlagNames |-> Undef]

ExtrasFlags ==
  {"appendChildSlotFix", "cloneNodeFix", "lifecycleDOMEvents", "scriptDataOpts",
   "slotChildNodesFix", "initializeNextTick", "tagNameTransform",
   "experimentalSlotFixes", "scopedSlotTextContentFix"}

\* a fresh {} used as extras
EmptyExtras == [k \in ExtrasFlags |-> Undef]

ConfigFields ==
  {"flags", "devMode", "extras", "buildEs5", "minifyCss", "minifyJs", "sourceMap", "watch",
   "buildDocs", "buildDist", "profile", "writeLog", "buildAppCore", "autoprefixCss",
   "validateTypes", "allowInlineScripts", "taskQueue", "hashFileNames",
   "hashedFileNameLength", "env", "bundles", "devInspector", "_isTesting", "enableCache",
   "watchIgnoredRegex", "transformAliasedImportPaths", "validatePrimaryPackageOutputTarget"}

\* a fresh {} used as a config
EmptyConfig == [k \in ConfigFields |-> Undef]

IsConfig(o) == "extras" \in DOMAIN o

DEFAULT_DEV_MODE == FALSE

DEFAULT_HASHED_FILENAME_LENTH == 8

MIN_HASHED_FILENAME_LENTH == 4

MAX_HASHED_FILENAME_LENTH == 32

(***************************************************************************)
(* Helpers imported by validate-config.ts.                                 *)
(***************************************************************************)
\* JSON.parse(JSON.stringify(v)) of one property value: NaN is written as
\* null, an undefined property is dropped (and then reads as undefined)
JSONValue(x) == IF x.t = "nan" THEN Null ELSE x

JSONRoundTrip(flags) == Flags([k \in DOMAIN flags.v |-> JSONValue(flags.v[k])])

NoFlag == ""

\* the Boolean Default Setter: an existing boolean stays, else a boolean
\* flag of the given name, else the default
setBooleanConfig(config, configName, flagName, defaultValue) ==
  IF isBoolean(config[configName]) THEN config
  ELSE IF flagName # NoFlag /\ isBoolean(config.flags.v[flagName])
       THEN [config EXCEPT ![configName] = config.flags.v[flagName]]
  ELSE [config EXCEPT ![configName] = defaultValue]

\* buildError(diagnostics): the diagnostic it pushes, with the message the caller sets
buildError(messageText) == [level |-> "error", type |-> "build", messageText |-> messageText]

\* sortBy(array, prop): a new array, ascending by prop, ties in their original
\* order; keyOf[i] is prop(array[i])
sortBy(array, keyOf) ==
  LET before(i, j) == keyOf[i] < keyOf[j] \/ (keyOf[i] = keyOf[j] /\ i < j)
      rank(i) == Cardinality({j \in DOMAIN array : before(j, i)}) + 1
  IN [k \in DOMAIN array |-> array[CHOOSE i \in DOMAIN array : rank(i) = k]]

\* what the external validators report in one run: the validators that append an error
ExternalValidators ==
  <<"validateNamespace", "validateOutputTargets", "validatePlugins", "validateDevServer", "validateTesting">>

externalDiagnostics(ext) ==
  SelectSeq([i \in DOMAIN ExternalValidators |-> buildError(ExternalValidators[i])],
            LAMBDA d : d.messageText \in ext)

(***************************************************************************)
(* validateConfig, step by step.                                           *)
(***************************************************************************)
\* lines 60: is this the object validated last?
isCached_AnyCached(userConfig) == CACHED_VALIDATED_CONFIG # Null

isCached(userConfig) == CACHED_VALIDATED_CONFIG # Null /\ CACHED_VALIDATED_CONFIG = userConfig

\* lines 75-95: the shallow copy and the object literal
assembleValidatedConfig(userConfig) ==
  [userConfig EXCEPT
     !.flags = JSONRoundTrip(IF Truthy(userConfig.flags) THEN userConfig.flags ELSE Flags(NoFlags)),
     !.transformAliasedImportPaths =
        IF isBoolean(userConfig.transformAliasedImportPaths)
        THEN userConfig.transformAliasedImportPaths ELSE B(TRUE),
     !.validatePrimaryPackageOutputTarget =
        Nullish(userConfig.validatePrimaryPackageOutputTarget, B(FALSE))]

\* the dev flag tested before the prod flag
resolveDevMode_DevFirst(validatedConfig) ==
  IF Truthy(validatedConfig.flags.v.dev) THEN [validatedConfig EXCEPT !.devMode = B(TRUE)]
  ELSE IF Truthy(validatedConfig.flags.v.prod) THEN [validatedConfig EXCEPT !.devMode = B(FALSE)]
  ELSE IF ~isBoolean(validatedConfig.devMode)
       THEN [validatedConfig EXCEPT !.devMode = B(DEFAULT_DEV_MODE)]
  ELSE validatedConfig

\* lines 97-104
resolveDevMode(validatedConfig) ==
  IF Truthy(validatedConfig.flags.v.prod) THEN [validatedConfig EXCEPT !.devMode = B(FALSE)]
  ELSE IF Truthy(validatedConfig.flags.v.dev) THEN [validatedConfig EXCEPT !.devMode = B(TRUE)]
  ELSE IF ~isBoolean(validatedConfig.devMode)
       THEN [validatedConfig EXCEPT !.devMode = B(DEFAULT_DEV_MODE)]
  ELSE validatedConfig

\* lines 107-125, on the extras object itself
normalizeExtras(extras) ==
  LET coerced ==
        [extras EXCEPT
           !.appendChildSlotFix = B(Truthy(extras.appendChildSlotFix)),
           !.cloneNodeFix = B(Truthy(extras.cloneNodeFix)),
           !.lifecycleDOMEvents = B(Truthy(extras.lifecycleDOMEvents)),
           !.scriptDataOpts = B(Truthy(extras.scriptDataOpts)),
           !.slotChildNodesFix = B(Truthy(extras.slotChildNodesFix)),
           !.initializeNextTick = B(Truthy(extras.initializeNextTick)),
           !.tagNameTransform = B(Truthy(extras.tagNameTransform)),
           !.experimentalSlotFixes = B(Truthy(extras.experimentalSlotFixes))]
  IN IF Truthy(coerced.experimentalSlotFixes)
     THEN [coerced EXCEPT
             !.appendChildSlotFix = B(TRUE),
             !.cloneNodeFix = B(TRUE),
             !.slotChildNodesFix = B(TRUE),
             !.scopedSlotTextContentFix = B(TRUE)]
     ELSE coerced

\* lines 127-128
resolveBuildEs5(validatedConfig) ==
  [validatedConfig EXCEPT
     !.buildEs5 = B(validatedConfig.buildEs5 = B(TRUE)
                    \/ (~Truthy(validatedConfig.devMode) /\ validatedConfig.buildEs5 = S(Str_prod)))]

\* line 130
setMinifyCss(c) == setBooleanConfig(c, "minifyCss", NoFlag, B(~Truthy(c.devMode)))

\* line 131
setMinifyJs(c) == setBooleanConfig(c, "minifyJs", NoFlag, B(~Truthy(c.devMode)))

\* lines 132-137
setSourceMap(c) ==
  setBooleanConfig(c, "sourceMap", NoFlag,
                   IF TypeOf(c.sourceMap) = "undefined" THEN B(TRUE) ELSE c.sourceMap)

\* line 138
setWatch(c) == setBooleanConfig(c, "watch", "watch", B(FALSE))

\* line 139
setBuildDocs(c) == setBooleanConfig(c, "buildDocs", "docs", B(~Truthy(c.devMode)))

\* line 140
setBuildDist(c) ==
  setBooleanConfig(c, "buildDist", "esm", IF ~Truthy(c.devMode) THEN B(TRUE) ELSE c.buildEs5)

\* line 141
setProfile(c) == setBooleanConfig(c, "profile", "profile", c.devMode)

\* line 142
setWriteLog(c) == setBooleanConfig(c, "writeLog", "log", B(FALSE))

\* line 143
setBuildAppCore(c) == setBooleanConfig(c, "buildAppCore", NoFlag, B(TRUE))

\* line 144
setAutoprefixCss(c) == setBooleanConfig(c, "autoprefixCss", NoFlag, c.buildEs5)

\* line 145
setValidateTypes(c) == setBooleanConfig(c, "validateTypes", NoFlag, B(~Truthy(c._isTesting)))

\* line 146
setAllowInlineScripts(c) == setBooleanConfig(c, "allowInlineScripts", NoFlag, B(TRUE))

\* lines 130-146, in the order of the code
resolveBooleanFields(validatedConfig) ==
  setAllowInlineScripts(setValidateTypes(setAutoprefixCss(setBuildAppCore(setWriteLog(
    setProfile(setBuildDist(setBuildDocs(setWatch(setSourceMap(setMinifyJs(
      setMinifyCss(validatedConfig))))))))))))

\* lines 148-150
resolveTaskQueue(validatedConfig) ==
  IF ~isString(validatedConfig.taskQueue)
  THEN [validatedConfig EXCEPT !.taskQueue = S(Str_async)]
  ELSE validatedConfig

\* lines 153-158
resolveHashing(validatedConfig) ==
  LET c1 == IF ~isBoolean(validatedConfig.hashFileNames)
            THEN [validatedConfig EXCEPT !.hashFileNames = B(~Truthy(validatedConfig.devMode))]
            ELSE validatedConfig
  IN IF ~isNumber(c1.hashedFileNameLength)
     THEN [c1 EXCEPT !.hashedFileNameLength = N(DEFAULT_HASHED_FILENAME_LENTH)]
     ELSE c1

\* a < b and a > b of JavaScript, on a number (or NaN) and an integer
LessThan(x, n) == x.t = "number" /\ x.v < n

GreaterThan(x, n) == x.t = "number" /\ x.v > n

MinLengthMessage == "validatedConfig.hashedFileNameLength must be at least 4 characters"

MaxLengthMessage == "validatedConfig.hashedFileNameLength cannot be more than 32 characters"

\* the range check with <= and >= for < and >
hashedFileNameLengthDiagnostics_Inclusive(validatedConfig) ==
  (IF ~GreaterThan(validatedConfig.hashedFileNameLength, MIN_HASHED_FILENAME_LENTH)
      /\ validatedConfig.hashedFileNameLength.t = "number"
   THEN <<buildError(MinLengthMessage)>> ELSE <<>>)
  \o (IF ~LessThan(validatedConfig.hashedFileNameLength, MAX_HASHED_FILENAME_LENTH)
         /\ validatedConfig.hashedFileNameLength.t = "number"
      THEN <<buildError(MaxLengthMessage)>> ELSE <<>>)

\* lines 159-166
hashedFileNameLengthDiagnostics(validatedConfig) ==
  (IF LessThan(validatedConfig.hashedFileNameLength, MIN_HASHED_FILENAME_LENTH)
   THEN <<buildError(MinLengthMessage)>> ELSE <<>>)
  \o (IF GreaterThan(validatedConfig.hashedFileNameLength, MAX_HASHED_FILENAME_LENTH)
      THEN <<buildError(MaxLengthMessage)>> ELSE <<>>)

\* lines 167-169
resolveEnv(validatedConfig) ==
  IF ~Truthy(validatedConfig.env) THEN [validatedConfig EXCEPT !.env = EmptyObject]
  ELSE validatedConfig

\* lines 187-191
resolveBundles(validatedConfig) ==
  IF validatedConfig.bundles.t = "array"
  THEN LET bundles == validatedConfig.bundles.v
       IN [validatedConfig EXCEPT
             !.bundles = Arr(sortBy(bundles, [i \in DOMAIN bundles |-> Len(bundles[i].components)]))]
  ELSE [validatedConfig EXCEPT !.bundles = Arr(<<>>)]

\* lines 205-213
resolveWatchIgnoredRegex(validatedConfig) ==
  LET w == validatedConfig.watchIgnoredRegex
      wrapped == IF w.t # "array" /\ w # Null /\ w # Undef THEN Arr(<<w>>) ELSE w
      list == IF Truthy(wrapped) THEN wrapped.v ELSE <<>>
  IN [validatedConfig EXCEPT
        !.watchIgnoredRegex = Arr(SelectSeq(list, LAMBDA reg : reg.t = "regexp"))]

\* what line 215 puts into the cache: the input instead of the result
cachedAfterRun_Input(validatedRef, userRef) == userRef

\* line 215
cachedAfterRun(validatedRef, userRef) == validatedRef

\* line 197
setDevInspector(c) == setBooleanConfig(c, "devInspector", NoFlag, c.devMode)

\* line 203
setEnableCache(c) == setBooleanConfig(c, "enableCache", "cache", B(TRUE))

\* lines 199-201
distNamespaceDiagnostics(validatedConfig, ext) ==
  IF ~Truthy(validatedConfig._isTesting) /\ "validateDistNamespace" \in ext
  THEN <<buildError("validateDistNamespace")>> ELSE <<>>

\* lines 75-213, the fields of the validated config (its extras aside)
resolveFields(userConfig) ==
  resolveWatchIgnoredRegex(setEnableCache(setDevInspector(resolveBundles(resolveEnv(
    resolveHashing(resolveTaskQueue(resolveBooleanFields(resolveBuildEs5(
      resolveDevMode(assembleValidatedConfig(userConfig)))))))))))

\* lines 58-213, the diagnostics in the order they are appended
collectDiagnostics(validatedConfig, ext) ==
  hashedFileNameLengthDiagnostics(validatedConfig)
  \o externalDiagnostics(ext)
  \o distNamespaceDiagnostics(validatedConfig, ext)

\* line 106: the extras object of the validated config is the caller's when
\* there is one (the copy of line 75 is shallow), else a new {}
extrasId(h, userConfig) ==
  IF Truthy(userConfig.extras) THEN userConfig.extras.v ELSE Len(h) + 2

\* lines 106-125: the heap once the extras object is normalized in place
writeExtras(h, userConfig) ==
  IF Truthy(userConfig.extras)
  THEN [h EXCEPT ![userConfig.extras.v] = normalizeExtras(h[userConfig.extras.v])]
  ELSE Append(h, normalizeExtras(EmptyExtras))

\* lines 75-221: a full run on the config object h[id]: the heap after it, the
\* object returned (a new object, at Len(h) + 1) and the diagnostics
fullRun(h, id, ext) ==
  [heap |-> writeExtras(Append(h, [resolveFields(h[id]) EXCEPT !.extras = Ref(extrasId(h, h[id]))]),
                        h[id]),
   config |-> Ref(Len(h) + 1),
   diagnostics |-> collectDiagnostics(resolveFields(h[id]), ext)]

\* lines 54-221: validateConfig(userConfig, bootstrapConfig) entered with heap h
validateConfigOn(h, userConfig, ext) ==
  IF isCached(userConfig)
  THEN /\ call.n < MaxCalls
       /\ call' = [call EXCEPT !.n = @ + 1, !.arg = userConfig, !.path = "cached",
                               !.ret = [config |-> userConfig, diagnostics |-> <<>>],
                               !.preHeap = h, !.preCache = CACHED_VALIDATED_CONFIG]
       /\ heap' = h
       /\ UNCHANGED CACHED_VALIDATED_CONFIG
       /\ UNCHANGED transpileVars
  ELSE LET run == fullRun(h, userConfig.v, ext)
       IN /\ call.n < MaxCalls
          /\ Len(run.heap) <= MaxObjs
          /\ heap' = run.heap
          /\ CACHED_VALIDATED_CONFIG' = cachedAfterRun(run.config, userConfig)
          /\ call' = [call EXCEPT !.n = @ + 1, !.arg = userConfig, !.path = "full",
                                  !.ret = [config |-> run.config, diagnostics |-> run.diagnostics],
                                  !.preHeap = h, !.preCache = CACHED_VALIDATED_CONFIG,
                                  !.results = @ \cup {run.config},
                                  !.lastFull = run.config]
          /\ UNCHANGED transpileVars

\* validateConfig(userConfig, bootstrapConfig) on an object the caller holds
ValidateConfig(userConfig, ext) == validateConfigOn(heap, userConfig, ext)

\* validateConfig(undefined, bootstrapConfig): the parameter defaults to a fresh {}
ValidateConfigDefault(ext) ==
  validateConfigOn(Append(heap, EmptyConfig), Ref(Len(heap) + 1), ext)

\* the caller builds a raw config object, with an extras object of its own or without
NewConfig(config, extras) ==
  /\ heap' = IF extras = Undef THEN Append(heap, config)
             ELSE heap \o <<[config EXCEPT !.extras = Ref(Len(heap) + 2)], extras.v>>
  /\ Len(heap') < MaxObjs
  /\ UNCHANGED <<CACHED_VALIDATED_CONFIG, call>>
  /\ UNCHANGED transpileVars

(***************************************************************************)
(* Transpile inputs.                                                       *)
(***************************************************************************)
EnumFields ==
  {"componentExport", "componentMetadata", "proxy", "module", "style", "styleImportData", "target"}

\* a TranspileOptions object with nothing set
EmptyInput ==
  [sys |-> Undef, componentExport |-> Undef, componentMetadata |-> Undef, proxy |-> Undef,
   module |-> Undef, style |-> Undef, styleImportData |-> Undef, target |-> Undef,
   sourceMap |-> Undef, transformAliasedImportPaths |-> Undef]

Words ==
  {Str_customelement, Str_module, Str_compilerstatic, Str_cjs, Str_esm, Str_defineproperty,
   Str_static, Str_queryparams, Str_latest, Str_esnext, Str_es2020, Str_es2019, Str_es2018,
   Str_es2017, Str_es2016, Str_es2015, Str_es5, Str_null, Str_bogus, Str_es3, <<>>}

Capitalize(w) == [i \in 1..Len(w) |-> IF i = 1 THEN UpperChar(w[i]) ELSE w[i]]

CaseVariants(w) == {w, [i \in 1..Len(w) |-> UpperChar(w[i])], Capitalize(w)}

Pad(c, k) == [i \in 1..k |-> c]

\* the word in three spellings, with up to MaxPad blanks before and tabs after it
Spellings(w) ==
  {Pad(" ", l) \o c \o Pad("\t", r) : l \in 0..MaxPad, r \in 0..MaxPad, c \in CaseVariants(w)}

NonStrings == {Undef, Null, N(0), N(1), B(TRUE), B(FALSE), EmptyObject}

OptValues == NonStrings \cup {S(s) : s \in UNION {Spellings(w) : w \in Words}}

OptInputs ==
  {[EmptyInput EXCEPT ![f] = v] : f \in EnumFields, v \in OptValues}
  \cup {[EmptyInput EXCEPT !.sourceMap = v] : v \in {S(Str_inline), B(TRUE), B(FALSE), Null}}

CallerSystems == {Sys("caller", 1), Sys("caller", 2)}

SysInputs ==
  {[EmptyInput EXCEPT !.sys = s, ![f] = v] :
     s \in CallerSystems \cup {Undef, Null},
     f \in {"proxy", "module"},
     v \in {Undef, Null, S(Str_cjs), S(Str_bogus)}}

(***************************************************************************)
(* Raw configs.                                                            *)
(***************************************************************************)
\* absent, null, a boolean, a string
LooseValues == {Undef, Null, B(TRUE), B(FALSE), S(Str_yes)}

BooleanFields ==
  {"devMode", "buildEs5", "minifyCss", "minifyJs", "sourceMap", "watch", "buildDocs",
   "buildDist", "profile", "writeLog", "buildAppCore", "autoprefixCss", "validateTypes",
   "allowInlineScripts", "devInspector", "enableCache", "hashFileNames"}

SlotFixes ==
  {"appendChildSlotFix", "cloneNodeFix", "slotChildNodesFix", "scopedSlotTextContentFix"}

\* an extras object as the caller writes it
Obj(rec) == [t |-> "literal", v |-> rec]

\* build mode: flags.prod, flags.dev, devMode, buildEs5, _isTesting
ModeConfigs ==
  {[EmptyConfig EXCEPT !.flags = f, !.devMode = d, !.buildEs5 = e, !._isTesting = t] :
     f \in {Undef} \cup {Flags([NoFlags EXCEPT !.prod = p, !.dev = q]) :
                           p \in {Undef, B(TRUE), B(FALSE), NaN},
                           q \in {Undef, B(TRUE), B(FALSE), S(Str_yes)}},
     d \in LooseValues,
     e \in {Undef, B(TRUE), B(FALSE), S(Str_prod)},
     t \in {Undef, B(TRUE)}}

\* one boolean field given loosely, one command-line flag, dev mode or not
BooleanConfigs ==
  {[EmptyConfig EXCEPT !.flags = Flags([NoFlags EXCEPT ![g] = w, !.dev = q]), ![f] = v] :
     f \in BooleanFields, v \in LooseValues,
     g \in FlagNames \ {"prod", "dev"}, w \in {Undef, B(TRUE), B(FALSE)},
     q \in {Undef, B(TRUE)}}

HashLengths ==
  (MIN_HASHED_FILENAME_LENTH - Slack)..(MIN_HASHED_FILENAME_LENTH + Slack)
  \cup (MAX_HASHED_FILENAME_LENTH - Slack)..(MAX_HASHED_FILENAME_LENTH + Slack)
  \cup {0, DEFAULT_HASHED_FILENAME_LENTH}

\* file-name hashing, with the fields resolved around it
HashConfigs ==
  {[EmptyConfig EXCEPT !.hashedFileNameLength = l, !.hashFileNames = h, !.devMode = d,
                       !.taskQueue = q, !.env = e] :
     l \in {N(n) : n \in HashLengths} \cup {Undef, Null, S(Str_yes), B(TRUE)},
     h \in {Undef, B(TRUE), S(Str_yes)},
     d \in {Undef, B(TRUE)},
     q \in {Undef, S(Str_async), N(1)},
     e \in {Undef, EmptyObject}}

Bundle(tags) == [components |-> tags]

\* bundles and watchIgnoredRegex
ListConfigs ==
  {[EmptyConfig EXCEPT !.bundles = b, !.watchIgnoredRegex = w] :
     b \in {Undef, S(Str_yes),
            Arr(<<Bundle(<<"a", "b", "c">>), Bundle(<<"d">>), Bundle(<<"e", "f">>)>>),
            Arr(<<Bundle(<<"a", "b">>), Bundle(<<"c">>), Bundle(<<"d", "e">>)>>)},
     w \in {Undef, Null, RegExp("r1"), S(Str_yes),
            Arr(<<RegExp("r1"), S(Str_yes), RegExp("r2")>>)}}

\* the extras objects: each slot fix and the composite flag given loosely, the
\* four other flags given one value
ExtrasObjects ==
  {Obj([k \in ExtrasFlags |->
          IF k \in SlotFixes THEN fix[k]
          ELSE IF k = "experimentalSlotFixes" THEN x ELSE o]) :
     fix \in [SlotFixes -> {Undef, B(TRUE), B(FALSE), S(Str_yes)}],
     x \in {Undef, B(TRUE), B(FALSE), S(Str_yes)},
     o \in {Undef, B(TRUE), S(Str_yes)}}

\* the pairs (config, extras object or none) a caller may hold
RawConfigs ==
  ((ModeConfigs \cup BooleanConfigs \cup HashConfigs \cup ListConfigs) \X {Undef})
  \cup ({EmptyConfig, [EmptyConfig EXCEPT !.extras = Null]} \X {Undef})
  \cup ({EmptyConfig} \X ExtrasObjects)

\* the few raw configs used where several calls follow one another
SessionConfigs ==
  {<<EmptyConfig, Undef>>,
   <<EmptyConfig, Obj(EmptyExtras)>>,
   <<[EmptyConfig EXCEPT !.hashedFileNameLength = N(MIN_HASHED_FILENAME_LENTH - 1)],
     Obj([EmptyExtras EXCEPT !.experimentalSlotFixes = B(TRUE)])>>}

ExtOutcomes == {{}, {"validateNamespace"}, {"validateDistNamespace"}}

SessionOutcomes == {{}, {"validateNamespace"}}

(***************************************************************************)
(* Specifications.                                                         *)
(***************************************************************************)
NoCall ==
  [n |-> 0, arg |-> Undef, path |-> "none", ret |-> [config |-> Undef, diagnostics |-> <<>>],
   preHeap |-> <<>>, preCache |-> Null, results |-> {}, lastFull |-> Null]

TranspileInit ==
  /\ transpileCtx = [sys |-> Null]
  /\ nodeSysCreated = 0
  /\ tcall = [n |-> 0, input |-> EmptyInput, result |-> Undef]

ValidateInit ==
  /\ heap = <<>>
  /\ CACHED_VALIDATED_CONFIG = Null
  /\ call = NoCall

\* the option normalizer on one prepared input: a single call
InitOpt ==
  /\ ValidateInit
  /\ transpileCtx = [sys |-> Null]
  /\ nodeSysCreated = 0
  /\ \E i \in OptInputs : tcall = [n |-> 0, input |-> i, result |-> Undef]

NextOpt == tcall.n = 0 /\ getTranspileConfig(tcall.input)

SpecOpt == InitOpt /\ [][NextOpt]_vars

\* a process making up to MaxCalls calls, with and without a system of its own
InitTranspile == ValidateInit /\ TranspileInit

NextTranspile == \E i \in SysInputs : tcall.n < MaxCalls /\ getTranspileConfig(i)

SpecTranspile == InitTranspile /\ [][NextTranspile]_vars

\* one full validation of one raw config
InitFields ==
  /\ TranspileInit
  /\ CACHED_VALIDATED_CONFIG = Null
  /\ call = NoCall
  /\ \E raw \in RawConfigs :
       heap = IF raw[2] = Undef THEN <<raw[1]>>
              ELSE <<[raw[1] EXCEPT !.extras = Ref(2)], raw[2].v>>

NextFields == \E ext \in ExtOutcomes : call.n = 0 /\ ValidateConfig(Ref(1), ext)

SpecFields == InitFields /\ [][NextFields]_vars

\* a build session: the caller builds configs and validates the objects it holds
InitCache == ValidateInit /\ TranspileInit

ConfigRefs == {Ref(i) : i \in {j \in DOMAIN heap : IsConfig(heap[j])}}

NextCache ==
  \/ \E raw \in SessionConfigs : NewConfig(raw[1], raw[2])
  \/ \E userConfig \in ConfigRefs, ext \in SessionOutcomes : ValidateConfig(userConfig, ext)
  \/ \E ext \in SessionOutcomes : ValidateConfigDefault(ext)

SpecCache == InitCache /\ [][NextCache]_vars

(***************************************************************************)
(* Properties of the transpile configuration.                              *)
(***************************************************************************)
\* the allow-list and the default the documentation gives for each enum-like field
DocAllowList(f) ==
  CASE f = "componentExport" -> {S(Str_customelement), S(Str_module)}
    [] f = "componentMetadata" -> {S(Str_compilerstatic), Null}
    [] f = "proxy" -> {S(Str_defineproperty), Null}
    [] f = "module" -> {S(Str_cjs), S(Str_esm)}
    [] f = "style" -> {S(Str_static)}
    [] f = "styleImportData" -> {S(Str_queryparams)}
    [] f = "target" -> {S(Str_latest), S(Str_esnext), S(Str_es2020), S(Str_es2019),
                        S(Str_es2018), S(Str_es2017), S(Str_es2016), S(Str_es2015), S(Str_es5)}

DocDefault(f) ==
  CASE f = "componentExport" -> S(Str_customelement)
    [] f = "componentMetadata" -> Null
    [] f = "proxy" -> S(Str_defineproperty)
    [] f = "module" -> S(Str_esm)
    [] f = "style" -> S(Str_static)
    [] f = "styleImportData" -> S(Str_queryparams)
    [] f = "target" -> S(Str_latest)

\* the value as the allow-list would hold it: lowercased and trimmed if a string
Canonical(value) == IF isString(value) THEN S(trim(toLowerCase(value.v))) ELSE value

OptResult(f) == tcall.result.compileOpts[f]

\* C2 as stated: for each enum-like field and every input, a value that is,
\* lowercased and trimmed, a member of the field's allow-list resolves to that
\* member, and every other input resolves to the field's documented default.
C2_EnumTotalityAsStated ==
  tcall.n = 1 =>
    \A f \in EnumFields :
      IF Canonical(tcall.input[f]) \in DocAllowList(f)
      THEN OptResult(f) = Canonical(tcall.input[f])
      ELSE OptResult(f) = DocDefault(f)

\* C2 amended: null and the exact string "null" resolve to null for every
\* field; any other string resolves to its lowercased, trimmed form when that
\* is a member of the allow-list and to the documented default otherwise; any
\* other value resolves to null for the fields whose allow-list holds null
\* and to the documented default for the others.
C2_EnumNormalization ==
  tcall.n = 1 =>
    \A f \in EnumFields :
      LET value == tcall.input[f]
      IN /\ value \in {Null, S(Str_null)} => OptResult(f) = Null
         /\ (isString(value) /\ value # S(Str_null) /\ Canonical(value) \in DocAllowList(f))
              => OptResult(f) = Canonical(value)
         /\ (isString(value) /\ value # S(Str_null) /\ Canonical(value) \notin DocAllowList(f))
              => OptResult(f) = DocDefault(f)
         /\ (~isString(value) /\ value # Null)
              => OptResult(f) = IF Null \in DocAllowList(f) THEN Null ELSE DocDefault(f)

\* a padded, upper-case member has been resolved to the member itself
C2_Witness ==
  /\ tcall.n = 1
  /\ tcall.input.module = S(<<" ", "E", "S", "M", "\t">>)
  /\ OptResult("module") = S(Str_esm)

\* C3 as stated: a value that is neither a string nor null resolves to the
\* fallback, whatever the allow-list; without a proxy option the resolved
\* proxy is 'defineproperty'.
C3_NonStringIsAbsent ==
  tcall.n = 1 =>
    \A f \in EnumFields :
      (~isString(tcall.input[f]) /\ tcall.input[f] # Null) => OptResult(f) = DocDefault(f)

\* C8 as stated: a call that supplies a system gets that system back; a call
\* that supplies none gets the default system, built by the default factory
\* on the first such call and never built again.
C8_SysResolution ==
  tcall.n >= 1 =>
    /\ nodeSysCreated <= 1
    /\ IF Truthy(tcall.input.sys)
       THEN tcall.result.config.sys = tcall.input.sys
       ELSE tcall.result.config.sys = createNodeSys(1)

(***************************************************************************)
(* Properties of validateConfig.                                           *)
(***************************************************************************)
\* this step is a call of validateConfig that follows an earlier call
SecondCall == call.n >= 1 /\ call'.n = call.n + 1

NoObjectWritten == \A i \in DOMAIN heap : heap'[i] = heap[i]

\* C1 as stated: a call with the object passed to the call before it returns
\* the object that call returned, with no diagnostics, and writes to no object.
C1_SameInputTwice ==
  [][(SecondCall /\ call'.arg = call.arg)
       => /\ call'.ret.config = call.ret.config
          /\ call'.ret.diagnostics = <<>>
          /\ NoObjectWritten]_vars

\* C1 amended: a call with the object the call before it RETURNED returns that
\* object again, with no diagnostics, and changes neither the heap nor the cache.
C1_RevalidateResult ==
  [][(SecondCall /\ call'.arg = call.ret.config)
       => /\ call'.ret.config = call.ret.config
          /\ call'.ret.diagnostics = <<>>
          /\ heap' = heap
          /\ CACHED_VALIDATED_CONFIG' = CACHED_VALIDATED_CONFIG]_vars

\* the result of a full run has been passed in again and came back as it was
C1_Witness ==
  /\ call.n >= 2
  /\ call.path = "cached"
  /\ call.arg \in call.results
  /\ call.ret = [config |-> call.arg, diagnostics |-> <<>>]
  /\ heap = call.preHeap

\* C7 as stated: a full run leaves every object that existed before it (the
\* caller's config and everything reachable from it) as it was.
C7_InputReadOnly ==
  call.path = "full" => \A i \in DOMAIN call.preHeap : heap[i] = call.preHeap[i]

\* C9: the cache is empty exactly until the first full run and then holds the
\* object returned by the latest full run; a call takes the short path exactly
\* when its argument is the cached object; the short path leaves the cache and
\* every object alone; a full run caches the new object it returns.
C9_SingleSlotCache ==
  /\ (CACHED_VALIDATED_CONFIG = Null) <=> (call.results = {})
  /\ CACHED_VALIDATED_CONFIG = call.lastFull
  /\ call.n >= 1 => (call.path = "cached" <=> call.arg = call.preCache)
  /\ call.path = "cached"
       => /\ CACHED_VALIDATED_CONFIG = call.preCache
          /\ \A i \in DOMAIN call.preHeap : heap[i] = call.preHeap[i]
          /\ call.ret.config = call.arg
  /\ call.path = "full"
       => /\ CACHED_VALIDATED_CONFIG = call.ret.config
          /\ call.ret.config.v \notin DOMAIN call.preHeap
          /\ call.ret.config.v \in DOMAIN heap

\* an earlier result, since evicted, has been passed in again and a full run followed
C9_Witness ==
  /\ call.path = "full"
  /\ call.arg \in call.results
  /\ call.preCache # Null
  /\ call.preCache # call.arg
  /\ CACHED_VALIDATED_CONFIG \notin {call.arg, call.preCache}

\* the raw config of the single run, its validated config and their extras
RawConfig == call.preHeap[1]

Validated == heap[call.ret.config.v]

RawExtras == call.preHeap[RawConfig.extras.v]

ValidatedExtras == heap[Validated.extras.v]

HashLengthDiagnostics ==
  SelectSeq(call.ret.diagnostics,
            LAMBDA d : d.messageText \in {MinLengthMessage, MaxLengthMessage})

\* C4: a hashedFileNameLength in 4..32 adds no diagnostic; a number below 4 or
\* above 32 adds exactly one error, is returned unchanged, and the run
\* completes (its result is cached and returned); a value that is not a
\* number adds no diagnostic and becomes 8.
C4_HashLengthCheck ==
  call.n = 1 =>
    LET raw == RawConfig.hashedFileNameLength
        out == Validated.hashedFileNameLength
    IN /\ (raw.t = "number" /\ raw.v >= 4 /\ raw.v <= 32)
            => HashLengthDiagnostics = <<>> /\ out = raw
       /\ (raw.t = "number" /\ (raw.v < 4 \/ raw.v > 32))
            => /\ Len(HashLengthDiagnostics) = 1
               /\ HashLengthDiagnostics[1].level = "error"
               /\ out = raw
               /\ CACHED_VALIDATED_CONFIG = call.ret.config
       /\ ~isNumber(raw) => HashLengthDiagnostics = <<>> /\ out = N(8)

\* a length of 33 has been reported once and kept
C4_Witness ==
  /\ call.n = 1
  /\ RawConfig.hashedFileNameLength = N(33)
  /\ Len(HashLengthDiagnostics) = 1
  /\ Validated.hashedFileNameLength = N(33)

RawFlags == IF RawConfig.flags = Undef THEN NoFlags ELSE RawConfig.flags.v

\* C5: devMode is false if flags.prod is set, else true if flags.dev is set,
\* else the raw devMode if that is a boolean, else false.
C5_DevModePrecedence ==
  call.n = 1 =>
    Validated.devMode =
      IF Truthy(RawFlags.prod) THEN B(FALSE)
      ELSE IF Truthy(RawFlags.dev) THEN B(TRUE)
      ELSE IF isBoolean(RawConfig.devMode) THEN RawConfig.devMode
      ELSE B(FALSE)

\* prod has won over dev and over devMode: true
C5_Witness ==
  /\ call.n = 1
  /\ RawFlags.prod = B(TRUE)
  /\ RawFlags.dev = B(TRUE)
  /\ RawConfig.devMode = B(TRUE)
  /\ Validated.devMode = B(FALSE)

\* C6 as stated: with only experimentalSlotFixes = true the four slot fixes are
\* true and the four other flags false; with experimentalSlotFixes not truthy
\* it stays off and each slot fix is the boolean coercion of its raw value.
C6_SlotFixCascade ==
  (call.n = 1 /\ RawConfig.extras.t = "object") =>
    /\ RawExtras = [EmptyExtras EXCEPT !.experimentalSlotFixes = B(TRUE)]
         => /\ \A k \in SlotFixes : ValidatedExtras[k] = B(TRUE)
            /\ \A k \in ExtrasFlags \ (SlotFixes \cup {"experimentalSlotFixes"}) :
                 ValidatedExtras[k] = B(FALSE)
    /\ ~Truthy(RawExtras.experimentalSlotFixes)
         => /\ ValidatedExtras.experimentalSlotFixes = B(FALSE)
            /\ \A k \in SlotFixes : ValidatedExtras[k] = B(Truthy(RawExtras[k]))

\* C10 as stated: after a full run every boolean field of the config and every
\* extras flag holds a boolean.
C10_BooleansResolved ==
  call.n = 1 =>
    /\ \A f \in BooleanFields : isBoolean(Validated[f])
    /\ \A k \in ExtrasFlags : isBoolean(ValidatedExtras[k])

=============================================================================
